---- MODULE Spec2Model ----
\* A Kademlia lookup (SimpleQuery) of the local node, driven by the
\* single-threaded scheduler, on top of the simulated endpoint (sim.Endpoint),
\* the router of the simulation and the routing table of the local node.
EXTENDS Integers, Sequences, FiniteSets, TLC

\* ---------------------------------------------------------------- bounds

\* peers of the simulated network besides the local node
NumPeers == 3
\* largest value of the query's concurrency option
MaxConcurrency == 2
\* longest CloserNodes list a remote peer answers with
MaxCloser == 2
\* distinct network addresses a peer can be announced with
NumAddrs == 1
\* remote peers announce the peers 0..MaxAnnounced as closer nodes
MaxAnnounced == 1

\* ---------------------------------------------------------------- network

\* the local node (the origin); its key is Self
SelfID == 0
NodeIDs == 0..NumPeers
Addrs == 1..NumAddrs
NoAddr == 0

\* NodeID.Key(): the peers of the simulation carry their key as identifier
KeyOf(id) == id

\* rt.Self(): the key of the local node
Self == KeyOf(SelfID)

\* peers that registered an endpoint with the router; the last peer is known
\* by name only and cannot be reached
RouterPeers == {id \in NodeIDs : id = SelfID \/ id < NumPeers}

\* the address under which a peer is announced in a response of peer "from"
AddrVia(from) == (from % NumAddrs) + 1

\* ---------------------------------------------------------------- keys

RECURSIVE Xor(_, _)
\* key.Xor on the unsigned integer reading of two keys
Xor(a, b) ==
    IF a = 0 /\ b = 0 THEN 0
    ELSE (((a % 2) + (b % 2)) % 2) + (2 * Xor(a \div 2, b \div 2))

\* the lists of closer nodes a response can carry
RECURSIVE SeqsUpTo(_, _)
SeqsUpTo(S, n) ==
    IF n = 0 THEN {<<>>}
    ELSE LET shorter == SeqsUpTo(S, n - 1)
         IN  shorter \cup {Append(s, x) : s \in shorter, x \in S}

CloserLists == SeqsUpTo(0..MaxAnnounced, MaxCloser)

Range(s) == {s[i] : i \in 1..Len(s)}

\* ---------------------------------------------------------------- state

VARIABLES
    phase,            \* "setup" before NewSimpleQuery, then "query"
    panicked,         \* a handler hit a runtime panic: the process is gone
    cancelled,        \* the query's context is cancelled (q.ctx.Err() != nil)
    done,             \* q.done
    concurrency,      \* q.concurrency
    timeout,          \* q.timeout (0: no timeout)
    target,           \* q.req.Target()
    inflightRequests, \* q.inflightRequests
    peerlist,         \* q.peerlist: status of each peer of the frontier
    rt,               \* the routing table: the peers it holds
    sched,            \* the scheduler's FIFO queue of actions
    planned,          \* the planner: stream ids whose timeout is not yet due
    peerstore,        \* Endpoint.peerstore
    connStatus,       \* Endpoint.connStatus
    streamFollowup,   \* Endpoint.streamFollowup: stream id -> peer of the request
    streamTimeout,    \* Endpoint.streamTimeout: stream ids with a planned timeout
    currStream,       \* the router's next stream id
    net,              \* requests delivered to a remote peer, not yet handled
    called,           \* history: per peer, how often the callback of its request ran
    last              \* history: the handler that ran last and what it did

qvars == <<cancelled, done, concurrency, timeout, target, inflightRequests, peerlist>>
evars == <<peerstore, connStatus, streamFollowup, streamTimeout>>
vars == <<phase, panicked, cancelled, done, concurrency, timeout, target,
          inflightRequests, peerlist, rt, sched, planned, peerstore, connStatus,
          streamFollowup, streamTimeout, currStream, net, called, last>>

\* ---------------------------------------------------------------- frontier

\* peerStatus of the peer list; "absent": the peer is not in the list
Statuses == {"absent", "queued", "waiting", "queried", "unreachable"}
NoNode == -1

\* peerList.queuedCount
queuedCount(pl) == Cardinality({p \in NodeIDs : pl[p] = "queued"})

\* an insertion that queues every announced peer again
addToPeerlistRequeue(pl, ids) ==
    [p \in NodeIDs |-> IF p \in Range(ids) THEN "queued" ELSE pl[p]]

\* peerList.addToPeerlist: new peers enter as queued, known peers keep their status
addToPeerlist(pl, ids) ==
    [p \in NodeIDs |-> IF pl[p] = "absent" /\ p \in Range(ids) THEN "queued" ELSE pl[p]]

\* the order of the list: ascending XOR distance to the target, then NodeID
Closer(tgt, a, b) ==
    \/ Xor(KeyOf(a), tgt) < Xor(KeyOf(b), tgt)
    \/ Xor(KeyOf(a), tgt) = Xor(KeyOf(b), tgt) /\ a < b

\* peerList.popClosestQueued: the queued peer closest to the target, NoNode if none
popClosestQueued(pl, tgt) ==
    LET queuedPeers == {p \in NodeIDs : pl[p] = "queued"}
    IN  IF queuedPeers = {} THEN NoNode
        ELSE CHOOSE p \in queuedPeers : \A o \in queuedPeers \ {p} : Closer(tgt, p, o)

\* the transitions a status may take
ValidTransition(old, new) ==
    \/ old = "queued" /\ new = "waiting"
    \/ old = "waiting" /\ new \in {"queried", "unreachable"}

\* peerList.updatePeerStatusInPeerlist: other transitions are ignored
updatePeerStatusInPeerlist(pl, id, new) ==
    IF ValidTransition(pl[id], new) THEN [pl EXCEPT ![id] = new] ELSE pl

\* ---------------------------------------------------------------- routing table

\* width of a key in bits
KeyBits == 3
\* BucketLimit20: entries the key filter admits per common prefix length
BucketLimit == 20

Pow2(n) == 2 ^ n

\* key.CommonPrefixLength: matching most significant bits of two keys
Cpl(a, b) ==
    LET x == Xor(a, b)
    IN  IF x = 0 THEN KeyBits
        ELSE CHOOSE c \in 0..(KeyBits - 1) :
                 Pow2(KeyBits - 1 - c) <= x /\ x < Pow2(KeyBits - c)

\* rt.CplSize: entries whose common prefix length with the origin is c
CplSize(t, c) == Cardinality({p \in t : Cpl(KeyOf(p), Self) = c})

\* a filter that admits one entry more than its limit
BucketLimitInclusive(t, id, k) == CplSize(t, Cpl(KeyOf(id), Self)) <= k

\* a filter that counts the entries of the whole table
BucketLimitWholeTable(t, id, k) == Cardinality(t) < k

\* BucketLimit-K: admit iff fewer than k entries share the candidate's common
\* prefix length with the origin
BucketLimitFilter(t, id, k) == CplSize(t, Cpl(KeyOf(id), Self)) < k

\* the key filter of the table
KeyFilter(t, id) == BucketLimitFilter(t, id, BucketLimit)

\* rt.AddPeer under the filter BucketLimit-k: whether the peer is admitted
AddPeerOkWith(t, id, k) ==
    /\ KeyOf(id) # Self
    /\ \A p \in t : KeyOf(p) # KeyOf(id)
    /\ BucketLimitFilter(t, id, k)

\* rt.AddPeer: whether the peer is admitted
AddPeerOk(t, id) ==
    /\ KeyOf(id) # Self
    /\ \A p \in t : KeyOf(p) # KeyOf(id)
    /\ KeyFilter(t, id)

\* rt.AddPeer: the table afterwards
AddPeer(t, id) == IF AddPeerOk(t, id) THEN t \cup {id} ELSE t

\* rt.AddPeer under the filter BucketLimit-k: the table afterwards
AddPeerWith(t, id, k) == IF AddPeerOkWith(t, id, k) THEN t \cup {id} ELSE t

\* rt.RemoveKey: the table without the entry of that key
RemoveKey(t, k) == {p \in t : KeyOf(p) # k}

RECURSIVE NearestPeers(_, _, _)
\* rt.NearestPeers: up to n peers of the table, closest to the target first
NearestPeers(t, tgt, n) ==
    IF n = 0 \/ t = {} THEN <<>>
    ELSE LET c == CHOOSE p \in t : \A o \in t \ {p} : Closer(tgt, p, o)
         IN  <<c>> \o NearestPeers(t \ {c}, tgt, n - 1)

\* ---------------------------------------------------------------- endpoint

ConnStatuses == {"none", "CanConnect", "Connected"}

\* Endpoint.DialPeer: whether it returns ErrUnknownPeer
DialPeerErr(cs, id) == cs[id] \notin {"Connected", "CanConnect"}

\* a DialPeer that does not record the connection
DialPeerConnKept(cs, id) == cs

\* Endpoint.DialPeer: connStatus afterwards
DialPeerConn(cs, id) ==
    IF cs[id] = "CanConnect" THEN [cs EXCEPT ![id] = "Connected"] ELSE cs

\* a MaybeAddToPeerstore that records no address
MaybeAddPeerstoreSkipped(ps, id, addr) == ps

\* Endpoint.MaybeAddToPeerstore: peerstore afterwards
MaybeAddPeerstore(ps, id, addr) ==
    IF ps[id] = NoAddr THEN [ps EXCEPT ![id] = addr] ELSE ps

\* a MaybeAddToPeerstore that resets the connectedness of the peer
MaybeAddConnReset(cs, id) == [cs EXCEPT ![id] = "CanConnect"]

\* Endpoint.MaybeAddToPeerstore: connStatus afterwards
MaybeAddConn(cs, id) ==
    IF cs[id] = "none" THEN [cs EXCEPT ![id] = "CanConnect"] ELSE cs

\* Endpoint.HandleMessage: peerstore after recording the closer nodes of a response
HandleMessagePeerstore(ps, closer, addr) ==
    [p \in NodeIDs |-> IF p \in Range(closer) THEN addr ELSE ps[p]]

\* Endpoint.HandleMessage: connStatus after recording the closer nodes of a response
HandleMessageConn(cs, closer) ==
    [p \in NodeIDs |-> IF p \in Range(closer) THEN "CanConnect" ELSE cs[p]]

\* ---------------------------------------------------------------- scheduler

\* an action of the scheduler's queue: the function to run with what its closure holds
Item(t, p, sid, kind, closer) ==
    [t |-> t, p |-> p, sid |-> sid, kind |-> kind, closer |-> closer]

NewRequestItem == Item("newRequest", NoNode, 0, "", <<>>)

\* how a request can end for its callback
ErrKinds == {"dial", "transport", "invalid", "timeout"}

\* NewSimpleQuery: the newRequest actions enqueued at construction
RequestsEvents(conc, nclosest) == IF nclosest < conc THEN nclosest ELSE conc

RECURSIVE Repeat(_, _)
Repeat(x, n) == IF n <= 0 THEN <<>> ELSE <<x>> \o Repeat(x, n - 1)

\* ---------------------------------------------------------------- query

\* a check that only looks at the context
CheckIfDoneErrCtxOnly(d, c) == c

\* SimpleQuery.checkIfDone: whether it returns an error
CheckIfDoneErr(d, c) == d \/ c

\* a refill that counts the answered request as still in flight
NewRequestsToSendStale(conc, inflight, queued) ==
    IF queued < conc - (inflight + 1) THEN queued ELSE conc - (inflight + 1)

\* a refill that only looks at the queued peers
NewRequestsToSendUncapped(conc, inflight, queued) == queued

\* handleResponse: the newRequest actions to add after a response
NewRequestsToSend(conc, inflight, queued) ==
    IF queued < conc - inflight THEN queued ELSE conc - inflight

\* an eviction that does not look at the context
RequestErrorRtAlways(t, id, ctxErr) == RemoveKey(t, KeyOf(id))

\* an error path that leaves the routing table alone
RequestErrorRtNever(t, id, ctxErr) == t

\* requestError: the routing table afterwards
RequestErrorRt(t, id, ctxErr) == IF ~ctxErr THEN RemoveKey(t, KeyOf(id)) ELSE t

\* a handleResponse that adds every peer that answered
HandleResponseRtAlways(t, id, closer) == AddPeer(t, id)

\* handleResponse: the routing table after a non-nil response
HandleResponseRt(t, id, closer) == IF Len(closer) > 0 THEN AddPeer(t, id) ELSE t

RECURSIVE RemoveSelf(_, _, _, _)
\* handleResponse: the loop over closerPeers that cuts the origin out of the
\* slice it ranges over. arr is the backing array (shared with the response),
\* len the length of closerPeers, i the position of the range (from 1), calls
\* the peers handed to MaybeAddToPeerstore so far. The slice expression
\* closerPeers[i+1:] panics once the range is past the shortened slice.
RemoveSelf(arr, len, i, calls) ==
    IF i > Len(arr) THEN [arr |-> arr, len |-> len, calls |-> calls, panic |-> FALSE]
    ELSE IF KeyOf(arr[i]) = Self
         THEN IF i > len
              THEN [arr |-> arr, len |-> len, calls |-> calls, panic |-> TRUE]
              ELSE RemoveSelf([j \in 1..Len(arr) |->
                                  IF j >= i /\ j <= len - 1 THEN arr[j + 1] ELSE arr[j]],
                              len - 1, i + 1, calls)
         ELSE RemoveSelf(arr, len, i + 1, Append(calls, arr[i]))

RECURSIVE MaybeAddAll(_, _, _)
\* the endpoint after the MaybeAddToPeerstore calls of handleResponse
MaybeAddAll(e, calls, addr) ==
    IF calls = <<>> THEN e
    ELSE MaybeAddAll([ps |-> MaybeAddPeerstore(e.ps, Head(calls), addr),
                      cs |-> MaybeAddConn(e.cs, Head(calls))],
                     Tail(calls), addr)

\* ---------------------------------------------------------------- construction

\* cfg.NumberUsefulCloserPeers: the peers a query is seeded with
NumberUsefulCloserPeers == 20

\* the targets looked up
Targets == {Self, KeyOf(NumPeers)}

Did(op, p, sent, reqErr) == [op |-> op, p |-> p, sent |-> sent, reqErr |-> reqErr]

\* NewEndpoint, the empty routing table, no query yet
Init ==
    /\ phase = "setup"
    /\ panicked = FALSE
    /\ cancelled = FALSE
    /\ done = FALSE
    /\ concurrency = 0
    /\ timeout = 0
    /\ target = Self
    /\ inflightRequests = 0
    /\ peerlist = [p \in NodeIDs |-> "absent"]
    /\ rt = {}
    /\ sched = <<>>
    /\ planned = {}
    /\ peerstore = [p \in NodeIDs |-> NoAddr]
    /\ connStatus = [p \in NodeIDs |-> "none"]
    /\ streamFollowup = <<>>
    /\ streamTimeout = {}
    /\ currStream = 1
    /\ net = {}
    /\ called = [p \in NodeIDs |-> 0]
    /\ last = Did("init", NoNode, FALSE, FALSE)

\* the application fills the routing table: rt.AddPeer
AppAddPeer(id) ==
    /\ phase = "setup"
    /\ rt' = AddPeer(rt, id)
    /\ last' = Did("AddPeer", id, FALSE, FALSE)
    /\ UNCHANGED <<phase, panicked, qvars, sched, planned, evars, currStream, net, called>>

\* the application records a peer's address: Endpoint.MaybeAddToPeerstore
AppMaybeAddToPeerstore(id, addr) ==
    /\ phase = "setup"
    /\ peerstore' = MaybeAddPeerstore(peerstore, id, addr)
    /\ connStatus' = MaybeAddConn(connStatus, id)
    /\ last' = Did("MaybeAddToPeerstore", id, FALSE, FALSE)
    /\ UNCHANGED <<phase, panicked, qvars, rt, sched, planned, streamFollowup,
                   streamTimeout, currStream, net, called>>

\* NewSimpleQuery
NewSimpleQuery(tgt, conc, to) ==
    /\ phase = "setup"
    /\ phase' = "query"
    /\ LET closestPeers == NearestPeers(rt, tgt, NumberUsefulCloserPeers)
           requestsEvents == RequestsEvents(conc, Len(closestPeers))
       IN  /\ peerlist' = addToPeerlist(peerlist, closestPeers)
           /\ sched' = sched \o Repeat(NewRequestItem, requestsEvents)
           /\ inflightRequests' = requestsEvents
    /\ target' = tgt
    /\ concurrency' = conc
    /\ timeout' = to
    /\ last' = Did("NewSimpleQuery", NoNode, FALSE, FALSE)
    /\ UNCHANGED <<panicked, cancelled, done, rt, planned, evars, currStream, net, called>>

\* the caller cancels the query's context
Cancel ==
    /\ phase = "query"
    /\ ~panicked
    /\ ~cancelled
    /\ cancelled' = TRUE
    /\ last' = Did("cancel", NoNode, FALSE, FALSE)
    /\ UNCHANGED <<phase, panicked, done, concurrency, timeout, target,
                   inflightRequests, peerlist, rt, sched, planned, evars,
                   currStream, net, called>>

\* ---------------------------------------------------------------- sending

\* Endpoint.SendRequestHandleResponse called by newRequest; q is the queue
\* without the running action
SendRequestHandleResponse(q, id) ==
    IF DialPeerErr(connStatus, id)
    THEN /\ sched' = Append(q, Item("handleResp", id, 0, "dial", <<>>))
         /\ UNCHANGED <<panicked, planned, evars, currStream, net>>
    ELSE IF peerstore[id] = NoAddr
    THEN \* addr.NodeID() on the nil address of a peer the peerstore lacks
         /\ panicked' = TRUE
         /\ connStatus' = DialPeerConn(connStatus, id)
         /\ sched' = q
         /\ UNCHANGED <<planned, peerstore, streamFollowup, streamTimeout, currStream, net>>
    ELSE IF id \notin RouterPeers
    THEN \* router.SendMessage fails
         /\ sched' = Append(q, Item("handleResp", id, 0, "transport", <<>>))
         /\ connStatus' = DialPeerConn(connStatus, id)
         /\ UNCHANGED <<panicked, planned, peerstore, streamFollowup, streamTimeout,
                        currStream, net>>
    ELSE LET sid == currStream
         IN  /\ currStream' = sid + 1
             /\ connStatus' = DialPeerConn(connStatus, id)
             /\ IF id = SelfID
                THEN \* the router hands the request to the sender's own endpoint
                     /\ \E kind \in {"resp", "invalid"} :
                            sched' = Append(q, Item("HandleMessage", id, sid, kind, <<>>))
                     /\ net' = net
                ELSE /\ sched' = q
                     /\ net' = net \cup {[sid |-> sid, to |-> id]}
             /\ streamFollowup' = (sid :> id) @@ streamFollowup
             /\ IF timeout # 0
                THEN /\ streamTimeout' = streamTimeout \cup {sid}
                     /\ planned' = planned \cup {sid}
                ELSE UNCHANGED <<streamTimeout, planned>>
             /\ UNCHANGED <<panicked, peerstore>>

\* SimpleQuery.newRequest
RunNewRequest ==
    /\ phase = "query"
    /\ ~panicked
    /\ sched # <<>>
    /\ Head(sched).t = "newRequest"
    /\ LET q == Tail(sched)
           id == popClosestQueued(peerlist, target)
       IN  IF CheckIfDoneErr(done, cancelled)
           THEN /\ done' = TRUE
                /\ inflightRequests' = inflightRequests - 1
                /\ sched' = q
                /\ last' = Did("newRequest", NoNode, FALSE, FALSE)
                /\ UNCHANGED <<panicked, peerlist, planned, evars, currStream, net>>
           ELSE IF id = NoNode
           THEN /\ inflightRequests' = inflightRequests - 1
                /\ sched' = q
                /\ last' = Did("newRequest", NoNode, FALSE, FALSE)
                /\ UNCHANGED <<panicked, done, peerlist, planned, evars, currStream, net>>
           ELSE /\ peerlist' = updatePeerStatusInPeerlist(peerlist, id, "waiting")
                /\ SendRequestHandleResponse(q, id)
                /\ last' = Did("newRequest", id, TRUE, FALSE)
                /\ UNCHANGED <<done, inflightRequests>>
    /\ UNCHANGED <<phase, cancelled, concurrency, timeout, target, rt, called>>

\* ---------------------------------------------------------------- remote peers, planner, endpoint

\* a remote peer handles a request and answers through the router
RemoteReplies(m, kind, closer) ==
    /\ ~panicked
    /\ m \in net
    /\ kind = "invalid" => closer = <<>>
    /\ net' = net \ {m}
    /\ sched' = Append(sched, Item("HandleMessage", m.to, m.sid, kind, closer))
    /\ last' = Did("remote", NoNode, FALSE, FALSE)
    /\ UNCHANGED <<phase, panicked, qvars, rt, planned, evars, currStream, called>>

\* the request handler of a remote peer fails: no answer is sent
RemoteDrops(m) ==
    /\ ~panicked
    /\ m \in net
    /\ net' = net \ {m}
    /\ last' = Did("remote", NoNode, FALSE, FALSE)
    /\ UNCHANGED <<phase, panicked, qvars, rt, sched, planned, evars, currStream, called>>

\* the deadline of a planned timeout passes: the planner moves it to the queue
TimeoutElapses(sid) ==
    /\ ~panicked
    /\ sid \in planned
    /\ planned' = planned \ {sid}
    /\ sched' = Append(sched, Item("timeout", NoNode, sid, "", <<>>))
    /\ last' = Did("planner", NoNode, FALSE, FALSE)
    /\ UNCHANGED <<phase, panicked, qvars, rt, evars, currStream, net, called>>

Without(f, k) == [x \in DOMAIN f \ {k} |-> f[x]]

\* a response that leaves the followup of its stream registered
HandleMessageFollowupKept(f, sid) == f

\* Endpoint.HandleMessage: streamFollowup once the response is taken
HandleMessageFollowup(f, sid) == Without(f, sid)

\* Endpoint.HandleMessage
RunHandleMessage ==
    /\ ~panicked
    /\ sched # <<>>
    /\ Head(sched).t = "HandleMessage"
    /\ LET it == Head(sched)
           q == Tail(sched)
       IN  IF it.sid \in DOMAIN streamFollowup
           THEN /\ planned' = planned \ {it.sid}
                /\ streamFollowup' = HandleMessageFollowup(streamFollowup, it.sid)
                /\ streamTimeout' = streamTimeout \ {it.sid}
                /\ IF it.kind = "resp"
                   THEN /\ peerstore' = HandleMessagePeerstore(peerstore, it.closer, AddrVia(it.p))
                        /\ connStatus' = HandleMessageConn(connStatus, it.closer)
                   ELSE UNCHANGED <<peerstore, connStatus>>
                /\ sched' = Append(q, Item("handleResp", streamFollowup[it.sid], it.sid,
                                           it.kind, it.closer))
           ELSE \* no followup: the message goes to the request handler
                /\ sched' = q
                /\ UNCHANGED <<planned, evars>>
    /\ last' = Did("HandleMessage", Head(sched).p, FALSE, FALSE)
    /\ UNCHANGED <<phase, panicked, qvars, rt, currStream, net, called>>

\* the timeout action planned by SendRequestHandleResponse; it calls the
\* response callback, which enqueues requestError
RunTimeout ==
    /\ ~panicked
    /\ sched # <<>>
    /\ Head(sched).t = "timeout"
    /\ LET sid == Head(sched).sid
           q == Tail(sched)
       IN  /\ streamFollowup' = Without(streamFollowup, sid)
           /\ streamTimeout' = streamTimeout \ {sid}
           /\ IF sid \in DOMAIN streamFollowup
              THEN /\ called' = [called EXCEPT ![streamFollowup[sid]] = @ + 1]
                   /\ sched' = Append(q, Item("requestError", streamFollowup[sid], sid,
                                              "timeout", <<>>))
              ELSE /\ sched' = q
                   /\ called' = called
    /\ last' = Did("timeout", NoNode, FALSE, FALSE)
    /\ UNCHANGED <<phase, panicked, qvars, rt, planned, peerstore, connStatus,
                   currStream, net>>

\* the action that runs the response callback (handleResp of newRequest)
RunCallback ==
    /\ ~panicked
    /\ sched # <<>>
    /\ Head(sched).t = "handleResp"
    /\ LET it == Head(sched)
           q == Tail(sched)
       IN  /\ called' = [called EXCEPT ![it.p] = @ + 1]
           /\ IF it.kind \in ErrKinds
              THEN sched' = Append(q, Item("requestError", it.p, it.sid, it.kind, <<>>))
              ELSE sched' = Append(q, Item("handleResponse", it.p, it.sid, it.kind, it.closer))
    /\ last' = Did("handleResp", Head(sched).p, FALSE, FALSE)
    /\ UNCHANGED <<phase, panicked, qvars, rt, planned, evars, currStream, net>>

\* ---------------------------------------------------------------- responses

\* SimpleQuery.requestError, also entered from handleResponse on a nil response
RequestError(q, id) ==
    /\ inflightRequests' = inflightRequests - 1
    /\ rt' = RequestErrorRt(rt, id, cancelled)
    /\ done' = (done \/ cancelled)
    /\ IF CheckIfDoneErr(done, cancelled)
       THEN /\ sched' = q
            /\ peerlist' = peerlist
       ELSE /\ peerlist' = updatePeerStatusInPeerlist(peerlist, id, "unreachable")
            /\ sched' = Append(q, NewRequestItem)
    /\ UNCHANGED <<panicked, peerstore, connStatus>>

RunRequestError ==
    /\ ~panicked
    /\ sched # <<>>
    /\ Head(sched).t = "requestError"
    /\ RequestError(Tail(sched), Head(sched).p)
    /\ last' = Did("requestError", Head(sched).p, FALSE, TRUE)
    /\ UNCHANGED <<phase, cancelled, concurrency, timeout, target, planned,
                   streamFollowup, streamTimeout, currStream, net, called>>

\* what the termination callback hands back: the closer nodes of the response
\* as it reads them (the response shares its list with the loop of
\* handleResponse, or hands out a copy), or nothing
UsefulNodes(mode, closer, loopArr) ==
    IF mode = "forward" THEN loopArr
    ELSE IF mode = "forwardCopy" THEN closer
    ELSE <<>>

\* SimpleQuery.handleResponse
RunHandleResponse ==
    /\ ~panicked
    /\ sched # <<>>
    /\ Head(sched).t = "handleResponse"
    /\ LET it == Head(sched)
           q == Tail(sched)
           id == it.p
           loop == RemoveSelf(it.closer, Len(it.closer), 1, <<>>)
           e == MaybeAddAll([ps |-> peerstore, cs |-> connStatus], loop.calls, AddrVia(id))
           inflight == inflightRequests - 1
       IN  IF CheckIfDoneErr(done, cancelled)
           THEN /\ done' = TRUE
                /\ sched' = q
                /\ last' = Did("handleResponse", id, FALSE, FALSE)
                /\ UNCHANGED <<panicked, inflightRequests, peerlist, rt, peerstore, connStatus>>
           ELSE IF it.kind = "nil"
           THEN /\ RequestError(q, id)
                /\ last' = Did("handleResponse", id, FALSE, TRUE)
           ELSE /\ rt' = HandleResponseRt(rt, id, it.closer)
                /\ peerstore' = e.ps
                /\ connStatus' = e.cs
                /\ IF loop.panic
                   THEN /\ panicked' = TRUE
                        /\ inflightRequests' = inflight
                        /\ peerlist' = updatePeerStatusInPeerlist(peerlist, id, "queried")
                        /\ sched' = q
                        /\ done' = done
                   ELSE /\ panicked' = panicked
                        /\ \E stop \in BOOLEAN, mode \in {"forward", "forwardCopy", "none"} :
                            LET pl == updatePeerStatusInPeerlist(peerlist, id, "queried")
                                added == addToPeerlist(pl, UsefulNodes(mode, it.closer, loop.arr))
                                n == NewRequestsToSend(concurrency, inflight, queuedCount(added))
                            IN  IF stop
                                THEN /\ done' = TRUE
                                     /\ peerlist' = pl
                                     /\ inflightRequests' = inflight
                                     /\ sched' = q
                                ELSE /\ done' = done
                                     /\ peerlist' = added
                                     /\ inflightRequests' = inflight + n
                                     /\ sched' = q \o Repeat(NewRequestItem, n)
                /\ last' = Did("handleResponse", id, FALSE, FALSE)
    /\ UNCHANGED <<phase, cancelled, concurrency, timeout, target, planned,
                   streamFollowup, streamTimeout, currStream, net, called>>

\* ---------------------------------------------------------------- specification

Next ==
    \/ \E id \in NodeIDs : AppAddPeer(id)
    \/ \E id \in NodeIDs \ {SelfID}, addr \in Addrs : AppMaybeAddToPeerstore(id, addr)
    \/ \E tgt \in Targets, conc \in 1..MaxConcurrency, to \in {0, 1} :
           NewSimpleQuery(tgt, conc, to)
    \/ Cancel
    \/ RunNewRequest
    \/ RunCallback
    \/ RunHandleResponse
    \/ RunRequestError
    \/ RunHandleMessage
    \/ RunTimeout
    \/ \E sid \in planned : TimeoutElapses(sid)
    \/ \E m \in net, kind \in {"resp", "invalid"}, closer \in CloserLists :
           RemoteReplies(m, kind, closer)
    \/ \E m \in net : RemoteDrops(m)

Spec == Init /\ [][Next]_vars

\* the scheduler runs its queue, planned timeouts come due, and every remote
\* peer handles the requests it receives (it answers, or its handler fails)
FairSpec ==
    /\ Spec
    /\ WF_vars(\E tgt \in Targets, conc \in 1..MaxConcurrency, to \in {0, 1} :
                   NewSimpleQuery(tgt, conc, to))
    /\ WF_vars(RunNewRequest)
    /\ WF_vars(RunCallback)
    /\ WF_vars(RunHandleResponse)
    /\ WF_vars(RunRequestError)
    /\ WF_vars(RunHandleMessage)
    /\ WF_vars(RunTimeout)
    /\ WF_vars(\E sid \in planned : TimeoutElapses(sid))
    /\ WF_vars(\E m \in net : \/ RemoteDrops(m)
                              \/ \E kind \in {"resp", "invalid"}, closer \in CloserLists :
                                     RemoteReplies(m, kind, closer))

\* ---------------------------------------------------------------- the parts on their own

\* the query, the scheduler and the endpoint before anything ran
Idle ==
    /\ panicked = FALSE
    /\ cancelled = FALSE
    /\ done = FALSE
    /\ concurrency = 0
    /\ timeout = 0
    /\ target = Self
    /\ inflightRequests = 0
    /\ peerlist = [p \in NodeIDs |-> "absent"]
    /\ rt = {}
    /\ sched = <<>>
    /\ planned = {}
    /\ peerstore = [p \in NodeIDs |-> NoAddr]
    /\ connStatus = [p \in NodeIDs |-> "none"]
    /\ streamFollowup = <<>>
    /\ streamTimeout = {}
    /\ currStream = 1
    /\ net = {}
    /\ called = [p \in NodeIDs |-> 0]

\* the limit K of the BucketLimit-K filter of a table driven on its own
RtBucketLimit == 2

\* the node ids offered to that table: every key of KeyBits bits
RtNodes == 0..(Pow2(KeyBits) - 1)

\* what a call on the table was and what it returned
RtDid(op, id, ok) == [op |-> op, p |-> id, ok |-> ok]

\* an empty routing table with the filter BucketLimit-K
RtInit ==
    /\ Idle
    /\ phase = "table"
    /\ last = RtDid("init", NoNode, FALSE)

\* rt.AddPeer on that table
RtAddPeer(id) ==
    /\ phase = "table"
    /\ rt' = AddPeerWith(rt, id, RtBucketLimit)
    /\ last' = RtDid("AddPeer", id, AddPeerOkWith(rt, id, RtBucketLimit))
    /\ UNCHANGED <<phase, panicked, qvars, sched, planned, evars, currStream, net, called>>

\* rt.RemoveKey on that table
RtRemoveKey(k) ==
    /\ phase = "table"
    /\ rt' = RemoveKey(rt, k)
    /\ last' = RtDid("RemoveKey", k, \E p \in rt : KeyOf(p) = k)
    /\ UNCHANGED <<phase, panicked, qvars, sched, planned, evars, currStream, net, called>>

RtNext ==
    \/ \E id \in RtNodes : RtAddPeer(id)
    \/ \E k \in RtNodes : RtRemoveKey(k)

RtSpec == RtInit /\ [][RtNext]_vars

\* longest CloserNodes list handed to the loop of handleResponse on its own
MaxResponse == 3

\* the CloserNodes lists of a response: any peers, the origin included
ResponseLists == SeqsUpTo(NodeIDs, MaxResponse)

\* the response of some peer, with some list of closer nodes, is about to be
\* processed, the endpoint knowing no peer yet
CloserInit ==
    /\ Idle
    /\ phase = "response"
    /\ \E p \in NodeIDs \ {SelfID}, c \in ResponseLists :
           last = [op |-> "response", p |-> p, closer |-> c]

\* the loop of handleResponse over the closer nodes of the response, with the
\* calls of MaybeAddToPeerstore it makes on the endpoint
HandleCloserNodes ==
    /\ phase = "response"
    /\ last.op = "response"
    /\ LET loop == RemoveSelf(last.closer, Len(last.closer), 1, <<>>)
           e == MaybeAddAll([ps |-> peerstore, cs |-> connStatus], loop.calls,
                            AddrVia(last.p))
       IN  /\ peerstore' = e.ps
           /\ connStatus' = e.cs
           /\ panicked' = loop.panic
           /\ last' = [op |-> "handleResponse", p |-> last.p,
                       closer |-> last.closer, loop |-> loop]
    /\ UNCHANGED <<phase, qvars, rt, sched, planned, streamFollowup, streamTimeout,
                   currStream, net, called>>

CloserNext == HandleCloserNodes

CloserSpec == CloserInit /\ [][CloserNext]_vars

\* requests posted to an endpoint driven on its own
MaxSends == 2

\* the addresses a peer can be recorded with on that endpoint
EpAddrs == 1..(NumAddrs + 1)

\* what a call on the endpoint was and the error it returned
\* (SendRequestHandleResponse returns nil even when the dial fails)
EpDid(op, id, addr, err) == [op |-> op, p |-> id, addr |-> addr, err |-> err]

\* NewEndpoint
EpInit ==
    /\ Idle
    /\ phase = "endpoint"
    /\ last = EpDid("init", NoNode, NoAddr, FALSE)

\* Endpoint.MaybeAddToPeerstore
EpMaybeAddToPeerstore(id, addr) ==
    /\ phase = "endpoint"
    /\ peerstore' = MaybeAddPeerstore(peerstore, id, addr)
    /\ connStatus' = MaybeAddConn(connStatus, id)
    /\ last' = EpDid("MaybeAddToPeerstore", id, addr, FALSE)
    /\ UNCHANGED <<phase, panicked, qvars, rt, sched, planned, streamFollowup,
                   streamTimeout, currStream, net, called>>

\* Endpoint.DialPeer
EpDialPeer(id) ==
    /\ phase = "endpoint"
    /\ connStatus' = DialPeerConn(connStatus, id)
    /\ last' = EpDid("DialPeer", id, NoAddr, DialPeerErr(connStatus, id))
    /\ UNCHANGED <<phase, panicked, qvars, rt, sched, planned, peerstore, streamFollowup,
                   streamTimeout, currStream, net, called>>

\* Endpoint.SendRequestHandleResponse
EpSendRequest(id) ==
    /\ phase = "endpoint"
    /\ (currStream - 1) + Len(sched) < MaxSends
    /\ SendRequestHandleResponse(sched, id)
    /\ last' = EpDid("SendRequest", id, NoAddr, FALSE)
    /\ UNCHANGED <<phase, qvars, rt, called>>

EpNext ==
    \/ \E id \in NodeIDs, addr \in EpAddrs : EpMaybeAddToPeerstore(id, addr)
    \/ \E id \in NodeIDs : EpDialPeer(id)
    \/ \E id \in NodeIDs : EpSendRequest(id)

EndpointSpec == EpInit /\ [][EpNext]_vars

\* ---------------------------------------------------------------- observations

QueueIndex == 1..Len(sched)

\* newRequest actions enqueued and not yet executed
ScheduledRequests == Cardinality({i \in QueueIndex : sched[i].t = "newRequest"})

\* peers whose request was handed to the endpoint and whose handleResponse or
\* requestError has not run yet
Outstanding ==
    {streamFollowup[sid] : sid \in DOMAIN streamFollowup}
        \cup {sched[i].p : i \in {j \in QueueIndex :
                  sched[j].t \in {"handleResp", "handleResponse", "requestError"}}}

\* peers newRequest posted a request for
Requested == {p \in NodeIDs : peerlist[p] \in {"waiting", "queried", "unreachable"}}

\* the step is a newRequest that called SendRequestHandleResponse
Sends == last'.op = "newRequest" /\ last'.sent /\ sched' # sched

\* nothing is scheduled or planned and no request is outstanding
Quiescent ==
    /\ phase = "query"
    /\ sched = <<>>
    /\ planned = {}
    /\ Outstanding = {}

\* a request whose stream waits for an answer that cannot come any more
Undelivered ==
    \E sid \in DOMAIN streamFollowup :
        /\ sid \notin planned
        /\ \A m \in net : m.sid # sid
        /\ \A i \in QueueIndex : sched[i].sid # sid

\* an action that will run the response callback of p's request is scheduled,
\* planned, or follows the remote peer's answer
CallbackPending(p) ==
    \/ \E i \in QueueIndex : sched[i].t = "handleResp" /\ sched[i].p = p
    \/ \E sid \in DOMAIN streamFollowup :
           /\ streamFollowup[sid] = p
           /\ \/ sid \in planned
              \/ \E i \in QueueIndex : sched[i].t \in {"timeout", "HandleMessage"}
                                       /\ sched[i].sid = sid

\* ---------------------------------------------------------------- claims

\* C1: the requests handed to the endpoint whose handleResponse or
\* requestError has not yet run never outnumber the concurrency of the query.
C1_OutstandingAtMostConcurrency ==
    phase = "query" => Cardinality(Outstanding) <= concurrency

\* C2: the counter inflightRequests never exceeds the concurrency, after
\* construction and after every action of the query.
C2_InflightAtMostConcurrency ==
    phase = "query" => inflightRequests <= concurrency

\* C2 witness: a response has just been handled and the refill took the
\* counter up to the concurrency, the new requests being scheduled.
C2_Witness ==
    /\ last.op = "handleResponse"
    /\ ~done
    /\ concurrency = 2
    /\ inflightRequests = concurrency
    /\ ScheduledRequests >= 1

\* C3: while the query is not done, inflightRequests counts the scheduled
\* newRequest actions plus the outstanding requests, and is never negative.
C3_InflightCountsScheduledAndOutstanding ==
    (phase = "query" /\ ~done) =>
        /\ inflightRequests = ScheduledRequests + Cardinality(Outstanding)
        /\ inflightRequests >= 0

\* C4: under fair scheduling, and unless a request is left without any
\* callback to come, every query reaches a state with nothing scheduled and
\* no request outstanding.
C4_QueryTerminates == <>(Quiescent \/ Undelivered)

\* C5 as claimed: once done, done stays true and no later action changes the
\* frontier or the routing table, or sends a request.
C5_DoneFreezesEverything ==
    [][done => (done' /\ peerlist' = peerlist /\ rt' = rt /\ ~Sends)]_vars

\* C5 amended: once done, done stays true and no later action changes the
\* frontier or sends a request; the routing table changes only when
\* requestError, the context not being cancelled, removes the key of the
\* failed peer.
C5_DoneFreezesFrontier ==
    [][done => /\ done'
               /\ peerlist' = peerlist
               /\ ~Sends
               /\ \/ rt' = rt
                  \/ /\ last'.reqErr
                     /\ ~cancelled
                     /\ rt' = RemoveKey(rt, KeyOf(last'.p))]_vars

\* C5 witness: the query was stopped by the callback and the error of a
\* request that was still outstanding has just been handled.
C5_Witness ==
    /\ done
    /\ ~cancelled
    /\ last.op = "requestError"
    /\ peerlist[last.p] = "waiting"

\* C6: once the context is cancelled the query sends no request and the
\* routing table is not changed.
C6_CancelledLeavesTableAndEndpoint ==
    [][cancelled => (rt' = rt /\ ~Sends)]_vars

\* C6 witness: the error of a request in flight at cancellation has just been
\* handled and the failed peer is still in the routing table.
C6_Witness ==
    /\ cancelled
    /\ last.op = "requestError"
    /\ last.p \in rt

\* C7: after requestError ran for a peer with the context not cancelled, no
\* entry of the routing table has that peer's key.
C7_FailedPeerEvicted ==
    (last.reqErr /\ ~cancelled) => \A p \in rt : KeyOf(p) # KeyOf(last.p)

\* C7 witness: a seed of the query, taken from the routing table, failed and
\* is marked unreachable and gone from the table.
C7_Witness ==
    /\ last.op = "requestError"
    /\ ~cancelled
    /\ ~done
    /\ peerlist[last.p] = "unreachable"
    /\ last.p \notin rt
    /\ rt # {}

\* C8: the origin is never in the frontier (so it is never sent a request),
\* the callback forwarding the closer nodes of the responses.
C8_OriginNeverInFrontier == peerlist[SelfID] = "absent"

\* C9 as claimed: the callback of a request never runs twice, and once the
\* scheduler, the planner and the network have nothing left it has run once
\* for every request.
C9_CallbackExactlyOnce ==
    /\ \A p \in NodeIDs : called[p] <= 1
    /\ (~panicked /\ sched = <<>> /\ planned = {} /\ net = {}) =>
           \A p \in Requested : called[p] = 1

\* C9 amended: the callback of a request never runs twice and runs only for a
\* request that was posted; for a request posted with a non-zero timeout, as
\* long as it has not run, an action that will run it is scheduled or planned.
C9_CallbackAtMostOnce ==
    /\ \A p \in NodeIDs : called[p] <= 1
    /\ \A p \in NodeIDs : called[p] = 1 => p \in Requested
    /\ (~panicked /\ timeout # 0) =>
           \A p \in Requested : called[p] = 0 => CallbackPending(p)

\* C9 witness: the timeout of a request came due and ran its callback, and the
\* answer of the peer arrived afterwards.
C9_Witness ==
    /\ last.op = "HandleMessage"
    /\ timeout # 0
    /\ called[last.p] = 1
    /\ peerlist[last.p] = "unreachable"
    /\ ~CallbackPending(last.p)

\* C10: a query neither stopped nor cancelled that has nothing scheduled and
\* no request outstanding has no queued or waiting peer and an inflight
\* counter of zero.
C10_DrainedWhenQuiescent ==
    (Quiescent /\ ~panicked /\ ~done /\ ~cancelled) =>
        /\ queuedCount(peerlist) = 0
        /\ \A p \in NodeIDs : peerlist[p] \in {"absent", "queried", "unreachable"}
        /\ inflightRequests = 0


\* C11: with the filter BucketLimit-K, after any sequence of AddPeer and
\* RemoveKey no common prefix length has more than K entries of the table, and
\* an AddPeer for a key whose bucket already holds K entries returns false and
\* leaves the table unchanged.
C11_BucketLimitHonoured ==
    [][/\ \A d \in 0..KeyBits : CplSize(rt', d) <= RtBucketLimit
       /\ (/\ last'.op = "AddPeer"
           /\ CplSize(rt, Cpl(KeyOf(last'.p), Self)) >= RtBucketLimit)
              => (~last'.ok /\ rt' = rt)]_vars

\* C11 witness: a peer has just been refused, its bucket holding K entries.
C11_Witness ==
    /\ phase = "table"
    /\ last.op = "AddPeer"
    /\ ~last.ok
    /\ KeyOf(last.p) # Self
    /\ last.p \notin rt
    /\ CplSize(rt, Cpl(KeyOf(last.p), Self)) = RtBucketLimit

\* C12: AddPeer of a key that is neither the origin nor in the table succeeds
\* whenever fewer than K entries share its common prefix length, whatever the
\* other buckets hold; and once RemoveKey took an entry out of the full bucket
\* of a peer that was just refused, that peer is admitted.
C12_AdmittedBelowLimit ==
    [][/\ (/\ last'.op = "AddPeer"
           /\ KeyOf(last'.p) # Self
           /\ last'.p \notin rt
           /\ CplSize(rt, Cpl(KeyOf(last'.p), Self)) < RtBucketLimit)
              => (last'.ok /\ rt' = rt \cup {last'.p})
       /\ (/\ last.op = "AddPeer"
           /\ ~last.ok
           /\ KeyOf(last.p) # Self
           /\ last.p \notin rt
           /\ last'.op = "RemoveKey"
           /\ last'.ok
           /\ Cpl(last'.p, Self) = Cpl(KeyOf(last.p), Self))
              => (/\ AddPeerOkWith(rt', last.p, RtBucketLimit)
                  /\ AddPeerWith(rt', last.p, RtBucketLimit) = rt' \cup {last.p})]_vars

\* C12 witness: a peer has just been admitted while the bucket of another
\* common prefix length is full.
C12_Witness ==
    /\ phase = "table"
    /\ last.op = "AddPeer"
    /\ last.ok
    /\ last.p \in rt
    /\ \E d \in 0..KeyBits :
           /\ d # Cpl(KeyOf(last.p), Self)
           /\ CplSize(rt, d) = RtBucketLimit


\* the step runs requestError on a query that is neither done nor cancelled
RequestErrorOnActiveQuery ==
    /\ sched # <<>>
    /\ Head(sched).t = "requestError"
    /\ last'.op = "requestError"
    /\ ~panicked
    /\ ~done
    /\ ~cancelled

\* C13: requestError for a peer, the query being neither done nor cancelled,
\* marks the peer unreachable, enqueues exactly one newRequest and leaves
\* inflightRequests at the value it had before.
C13_RequestErrorKeepsInflight ==
    [][RequestErrorOnActiveQuery =>
           /\ peerlist'[Head(sched).p] = "unreachable"
           /\ ScheduledRequests' = ScheduledRequests + 1
           /\ inflightRequests' = inflightRequests]_vars


\* the step runs handleResponse with a response, on a query that is neither
\* done nor cancelled, and the termination callback returns
HandleResponseOnActiveQuery ==
    /\ sched # <<>>
    /\ Head(sched).t = "handleResponse"
    /\ Head(sched).kind # "nil"
    /\ last'.op = "handleResponse"
    /\ ~panicked
    /\ ~panicked'
    /\ ~done
    /\ ~cancelled

\* the smaller of two numbers
Min(a, b) == IF a <= b THEN a ELSE b

\* C14: handleResponse with a response on an active query: when the callback
\* stops the query, done is set, no peer enters the frontier and no newRequest
\* is enqueued; otherwise only new peers enter the frontier, as queued, and
\* exactly min(concurrency - inflight, queuedCount) newRequest actions are
\* enqueued, inflight being the counter after the decrement for this response,
\* and the counter grows by that number.
C14_HandleResponseRefill ==
    [][HandleResponseOnActiveQuery =>
           LET id == Head(sched).p
               pl == [peerlist EXCEPT ![id] = "queried"]
               inflight == inflightRequests - 1
               n == Min(concurrency - inflight, queuedCount(peerlist'))
           IN  IF done'
               THEN /\ peerlist' = pl
                    /\ sched' = Tail(sched)
                    /\ inflightRequests' = inflight
               ELSE /\ \A p \in NodeIDs :
                           \/ peerlist'[p] = pl[p]
                           \/ /\ pl[p] = "absent"
                              /\ peerlist'[p] = "queued"
                              /\ p \in Range(Head(sched).closer)
                    /\ sched' = Tail(sched) \o Repeat(NewRequestItem, n)
                    /\ n >= 0
                    /\ inflightRequests' = inflight + n]_vars

\* C14 witness: a response has just been handled, the callback let the query
\* go on, and the two queued peers it left both got a newRequest.
C14_Witness ==
    /\ last.op = "handleResponse"
    /\ ~done
    /\ ~cancelled
    /\ ~panicked
    /\ Len(sched) = 2
    /\ ScheduledRequests = 2
    /\ inflightRequests = 2
    /\ \A p \in NodeIDs : peerlist[p] # "waiting"


\* C15: the query adds a peer to the routing table only in handleResponse, the
\* query being neither done nor cancelled, for the peer whose response is being
\* handled, and only if that response carries at least one closer node; no
\* other step of the query, and no empty, nil or failed answer, adds a peer.
C15_AddPeerOnlyForUsefulPeer ==
    [][(phase = "query" /\ ~(rt' \subseteq rt)) =>
           /\ sched # <<>>
           /\ Head(sched).t = "handleResponse"
           /\ Head(sched).kind \notin ErrKinds \cup {"nil"}
           /\ Len(Head(sched).closer) > 0
           /\ ~done
           /\ ~cancelled
           /\ last'.op = "handleResponse"
           /\ rt' = rt \cup {Head(sched).p}]_vars

\* C15 witness: a peer the query discovered has just answered, its response
\* was handled while the query was active, and the peer is not in the table.
C15_Witness ==
    /\ last.op = "handleResponse"
    /\ ~last.reqErr
    /\ ~done
    /\ ~cancelled
    /\ ~panicked
    /\ last.p # SelfID
    /\ peerlist[last.p] = "queried"
    /\ last.p \notin rt
    /\ rt # {}


\* how often x occurs in the sequence s
Count(s, x) == Cardinality({i \in 1..Len(s) : s[i] = x})

\* C16: handling a response, MaybeAddToPeerstore is called once for every
\* occurrence of a closer node whose key is not the origin's and never for a
\* closer node with the origin's key, wherever and however often the origin
\* occurs in the list; the endpoint then knows exactly the closer nodes other
\* than the origin.
C16_RecordedOncePerCloserNode ==
    (phase = "response" /\ last.op = "handleResponse") =>
        \A p \in NodeIDs :
            /\ Count(last.loop.calls, p) =
                   IF KeyOf(p) = Self THEN 0 ELSE Count(last.closer, p)
            /\ (peerstore[p] # NoAddr) <=>
                   (KeyOf(p) # Self /\ p \in Range(last.closer))


\* the moves of a peer's status in the frontier
StatusMoves ==
    {<<"absent", "queued">>, <<"queued", "waiting">>,
     <<"waiting", "queried">>, <<"waiting", "unreachable">>}

\* C17: within a query a peer's status only moves from queued to waiting and
\* from waiting to queried or unreachable, a peer announced again keeps its
\* status, and a request reaches the endpoint only in a newRequest step, for
\* the peer that step moved from queued to waiting: no peer is sent two
\* requests.
C17_OneRequestPerPeer ==
    [][/\ \A p \in NodeIDs :
              peerlist'[p] # peerlist[p] => <<peerlist[p], peerlist'[p]>> \in StatusMoves
       /\ Sends => /\ peerlist[last'.p] = "queued"
                   /\ peerlist'[last'.p] = "waiting"
       /\ \A sid \in DOMAIN streamFollowup' :
              sid \notin DOMAIN streamFollowup =>
                  /\ Sends
                  /\ streamFollowup'[sid] = last'.p
                  /\ \A other \in DOMAIN streamFollowup : streamFollowup[other] # last'.p
       /\ \A m \in net' : m \notin net => (Sends /\ m.to = last'.p)]_vars

\* C17 witness: the query has just sent a request to one more peer, another
\* peer's request having ended with a response or an error.
C17_Witness ==
    /\ last.op = "newRequest"
    /\ last.sent
    /\ peerlist[last.p] = "waiting"
    /\ \E sid \in DOMAIN streamFollowup : streamFollowup[sid] = last.p
    /\ \E q \in NodeIDs : q # last.p /\ called[q] = 1
                          /\ peerlist[q] \in {"queried", "unreachable"}


\* C18: on the endpoint every peer with a connStatus entry has a peerstore
\* entry, so that SendRequestHandleResponse, once DialPeer succeeded, finds the
\* address of the peer.
C18_ConnStatusHasAddress ==
    \A p \in NodeIDs : connStatus[p] # "none" => peerstore[p] # NoAddr

\* C18 witness: newRequest has just posted a request to a dialable peer, which
\* is now Connected and has its address in the peerstore.
C18_Witness ==
    /\ last.op = "newRequest"
    /\ last.sent
    /\ connStatus[last.p] = "Connected"
    /\ peerstore[last.p] # NoAddr
    /\ \E sid \in DOMAIN streamFollowup : streamFollowup[sid] = last.p


\* C19: DialPeer for a peer without connectedness entry returns ErrUnknownPeer
\* and leaves the endpoint as it was; for any other peer it returns no error
\* and the peer is Connected afterwards. SendRequestHandleResponse to a peer
\* that cannot be dialled returns no error, opens no stream, sends no message,
\* and enqueues one action that hands the dial error to the callback, which
\* it does not call itself.
C19_DialPeer ==
    [][/\ last'.op = "DialPeer" =>
              /\ peerstore' = peerstore
              /\ streamFollowup' = streamFollowup
              /\ streamTimeout' = streamTimeout
              /\ IF connStatus[last'.p] = "none"
                 THEN last'.err /\ connStatus' = connStatus
                 ELSE /\ ~last'.err
                      /\ connStatus' = [connStatus EXCEPT ![last'.p] = "Connected"]
       /\ (last'.op = "SendRequest" /\ connStatus[last'.p] = "none") =>
              /\ ~last'.err
              /\ net' = net
              /\ currStream' = currStream
              /\ planned' = planned
              /\ <<peerstore', connStatus', streamFollowup', streamTimeout'>> = evars
              /\ called' = called
              /\ sched' = Append(sched, Item("handleResp", last'.p, 0, "dial", <<>>))]_vars

\* C19 witness: a request to a peer without connectedness entry has just been
\* refused, its callback being scheduled with the dial error, after DialPeer
\* connected another peer.
C19_Witness ==
    /\ phase = "endpoint"
    /\ last.op = "SendRequest"
    /\ ~last.err
    /\ connStatus[last.p] = "none"
    /\ sched # <<>>
    /\ sched[Len(sched)].kind = "dial"
    /\ sched[Len(sched)].p = last.p
    /\ \E q \in NodeIDs : connStatus[q] = "Connected"

\* C20: MaybeAddToPeerstore touches the entries of its peer only; calling it
\* again for that peer, with any address, changes nothing; and for a peer
\* already known the stored address and the connectedness stay as they were.
C20_MaybeAddIdempotent ==
    [][last'.op = "MaybeAddToPeerstore" =>
           /\ \A a \in EpAddrs :
                  /\ MaybeAddPeerstore(peerstore', last'.p, a) = peerstore'
                  /\ MaybeAddConn(connStatus', last'.p) = connStatus'
           /\ peerstore[last'.p] # NoAddr => peerstore' = peerstore
           /\ connStatus[last'.p] # "none" => connStatus' = connStatus
           /\ \A o \in NodeIDs \ {last'.p} :
                  peerstore'[o] = peerstore[o] /\ connStatus'[o] = connStatus[o]]_vars

\* C20 witness: MaybeAddToPeerstore has just been called with another address
\* for a Connected peer, which kept its address and is still Connected.
C20_Witness ==
    /\ phase = "endpoint"
    /\ last.op = "MaybeAddToPeerstore"
    /\ connStatus[last.p] = "Connected"
    /\ peerstore[last.p] # NoAddr
    /\ peerstore[last.p] # last.addr

====
